---- MODULE Spec2Model ----
(***************************************************************************)
(* A model of examples/temperature/arma.py: the ARIMAX benchmark script.   *)
(* The script is one forward pass: reshape the panel into a wide table,    *)
(* select the cities that correlate most with the target, build the lagged *)
(* feature table, test for a linear trend, split chronologically, then     *)
(* fit / extend / score a baseline model and a model with exogenous        *)
(* regressors.  Each top-level statement group of the script is one action.*)
(*                                                                         *)
(* Library calls are modelled by their documented semantics:               *)
(*   pandas  corr (pairwise-complete Pearson), nlargest (descending,       *)
(*           keep='first', NaN last), shift, assign, dropna;               *)
(*   sklearn train_test_split(shuffle=False): n_test = ceil(test_size*n),  *)
(*           n_train = n - n_test, ValueError when n_train = 0;            *)
(*   pmdarima auto_arima / update / resid: the estimator is opaque, so the *)
(*           fitted coefficients are a nondeterministic choice from        *)
(*           ParamSet, and the residuals are the one-step errors of a      *)
(*           causal linear predictor under those coefficients.             *)
(***************************************************************************)
EXTENDS Integers, Sequences, FiniteSets, TLC

\* ---------------------------------------------------------------- bounds
\* Largest number of dates of an enumerated panel.
MaxRows == 7
\* Number of neighbouring cities used as exogenous component.  The script
\* sets cities = 30 (line 26); the model scales K down so that panels of a
\* few cities exercise "K+1 columns ranked, first discarded".
cities == 2

\* ------------------------------------------------------------- settings
\* test_size = 0.2 as the exact ratio 1/5.  For every n below 2*10^6 the
\* double product 0.2*n rounds so that ceil(0.2*n) = ceil(n/5).
TestSizeNum == 1
TestSizeDen == 5
\* update(..., maxiter=0)
MaxIter == 0
\* The target city, hard-wired in the script as the attribute Amsterdam.
Target == "Amsterdam"
\* The city universe in alphabetical order: unstack() sorts the remaining
\* index level, so the wide table's columns are always in this order.
Cities == <<"Aachen", "Amsterdam", "Brussels">>
\* A missing cell (NaN), encoded below every temperature of the model.
NaN == 0 - 1
\* Row count of the spec's end-to-end scenario.
ScenarioRows == 10 * 100

\* -------------------------------------------------------------- helpers
Abs(x) == IF x < 0 THEN 0 - x ELSE x

Min(a, b) == IF a < b THEN a ELSE b

RECURSIVE Gcd(_, _)
Gcd(a, b) == IF b = 0 THEN a ELSE Gcd(b, a % b)

\* Sum of s[lo..hi], by halving (keeps the evaluation depth logarithmic).
RECURSIVE Sum(_, _, _)
Sum(s, lo, hi) ==
    IF lo > hi THEN 0
    ELSE IF lo = hi THEN s[lo]
    ELSE LET mid == (lo + hi) \div 2
         IN  Sum(s, lo, mid) + Sum(s, mid + 1, hi)

SumSeq(s) == Sum(s, 1, Len(s))

Range(s) == {s[i] : i \in 1..Len(s)}

\* ------------------------------------------------- the panel (read_data)
\* Daily temperature of a city following one of a few series shapes.
ShapeNames == {"saw", "sawup", "alt"}

Series(shape, d) ==
    CASE shape = "saw"   -> d % 3
      [] shape = "sawup" -> (d % 3) + 1
      [] OTHER           -> d % 2

\* The panel as the script sees it after droplevel: a series indexed by
\* (city, date).  An observation absent from the index is a missing cell.
Panel(n, present, shape, missing) ==
    [p \in ((present \X (1..n)) \ missing) |-> Series(shape[p[1]], p[2])]

\* Observations at a panel edge (a city's first or last date).
EdgeCells(n, present) == present \X {1, n}

\* Enumerated inputs: up to MaxRows dates, any non-empty set of cities (the
\* target may be absent), a shape per city, at most one edge cell missing.
SmallPanels ==
    UNION { UNION { { Panel(n, present, shape, missing) :
                        shape \in [present -> ShapeNames],
                        missing \in {{}} \cup {{c} : c \in EdgeCells(n, present)} } :
                    present \in (SUBSET Range(Cities)) \ {{}} } :
            n \in 1..MaxRows }

\* The end-to-end scenario: ScenarioRows dates, two perfectly correlated
\* cities (Brussels = Amsterdam + constant), nothing missing.
ScenarioPanels ==
    { Panel(ScenarioRows, {Target, "Brussels"}, shape, {}) :
        shape \in [{Target, "Brussels"} -> {"saw", "sawup"}] }

\* ------------------------------------------------ City Reshaper (34-37)
PanelCities(d) == {p[1] : p \in DOMAIN d}

PanelDates(d) == {p[2] : p \in DOMAIN d}

SetMax(S) == CHOOSE m \in S : \A x \in S : x <= m

\* sort_index(): the dates present, ascending.
SortedDates(d) ==
    LET ds == PanelDates(d)
    IN  IF ds = {} THEN <<>>
        ELSE SelectSeq([i \in 1..SetMax(ds) |-> i], LAMBDA i : i \in ds)

\* unstack(level='date').T: one row per date, one column per city, columns
\* in sorted (alphabetical) order, NaN where the panel has no observation.
Unstack(d) ==
    LET cs  == PanelCities(d)
        idx == SortedDates(d)
    IN  [ columns |-> SelectSeq(Cities, LAMBDA c : c \in cs),
          rows    |-> [i \in 1..Len(idx) |->
                         [ date |-> idx[i],
                           v    |-> [c \in cs |->
                                       IF <<c, idx[i]>> \in DOMAIN d
                                       THEN d[<<c, idx[i]>>] ELSE NaN] ]] ]

\* Mutant: the column lookup never fails.
HasColumnAlways(frame, c) == TRUE

\* df_city.Amsterdam: attribute lookup of a column.
HasColumn(frame, c) == c \in Range(frame.columns)

Column(frame, c) == [i \in 1..Len(frame.rows) |-> frame.rows[i].v[c]]

EmptyFrame == [columns |-> <<>>, rows |-> <<>>]

\* -------------------------------------------- Correlation Selector (47-56)
\* Pearson correlation of columns a and b over the rows where both are
\* present (pandas corr: pairwise complete, min_periods = 1).  With n, the
\* sums and S = n*Sab - Sa*Sb, Va = n*Saa - Sa^2, Vb = n*Sbb - Sb^2 the
\* correlation is S / sqrt(Va*Vb), and NaN when a variance is zero.  It is
\* kept exactly, as its sign and its square p/q in lowest terms.
Corr(frame, a, b) ==
    LET xa  == Column(frame, a)
        xb  == Column(frame, b)
        m   == Len(frame.rows)
        ok  == [i \in 1..m |-> xa[i] # NaN /\ xb[i] # NaN]
        n   == SumSeq([i \in 1..m |-> IF ok[i] THEN 1 ELSE 0])
        Sa  == SumSeq([i \in 1..m |-> IF ok[i] THEN xa[i] ELSE 0])
        Sb  == SumSeq([i \in 1..m |-> IF ok[i] THEN xb[i] ELSE 0])
        Saa == SumSeq([i \in 1..m |-> IF ok[i] THEN xa[i] * xa[i] ELSE 0])
        Sbb == SumSeq([i \in 1..m |-> IF ok[i] THEN xb[i] * xb[i] ELSE 0])
        Sab == SumSeq([i \in 1..m |-> IF ok[i] THEN xa[i] * xb[i] ELSE 0])
        S   == n * Sab - Sa * Sb
        Va  == n * Saa - Sa * Sa
        Vb  == n * Sbb - Sb * Sb
    IN  IF Va = 0 \/ Vb = 0
        THEN [nan |-> TRUE, sign |-> 0, p |-> 0, q |-> 1]
        ELSE LET g1 == Gcd(Abs(S), Va)
                 g2 == Gcd(Abs(S), Vb)
                 pp == (Abs(S) \div g1) * (Abs(S) \div g2)
                 qq == (Va \div g1) * (Vb \div g2)
                 g  == Gcd(pp, qq)
             IN  [ nan  |-> FALSE,
                   sign |-> IF S > 0 THEN 1 ELSE IF S < 0 THEN 0 - 1 ELSE 0,
                   p    |-> pp \div g,
                   q    |-> qq \div g ]

\* r1 > r2 for two correlations that are not NaN.
CorrGreater(r1, r2) ==
    IF r1.sign # r2.sign THEN r1.sign > r2.sign
    ELSE IF r1.sign = 1 THEN r1.p * r2.q > r2.p * r1.q
    ELSE IF r1.sign = 0 - 1 THEN r1.p * r2.q < r2.p * r1.q
    ELSE FALSE

\* Whether index j is ranked before index i by nlargest: larger values
\* first, NaN last, equal values in their original order (keep='first').
RankedBefore(key, j, i) ==
    IF key[j].nan /\ key[i].nan THEN j < i
    ELSE IF key[j].nan THEN FALSE
    ELSE IF key[i].nan THEN TRUE
    ELSE \/ CorrGreater(key[j], key[i])
         \/ (~ CorrGreater(key[i], key[j]) /\ j < i)

\* nlargest(n, [col]).index[0:n].to_list(): the labels of the n largest
\* entries of key, in ranked order (all of them when there are fewer).
NLargest(n, labels, key) ==
    LET m      == Len(labels)
        pos    == [i \in 1..m |-> 1 + Cardinality({j \in 1..m : j # i /\ RankedBefore(key, j, i)})]
        ranked == [k \in 1..m |-> labels[CHOOSE i \in 1..m : pos[i] = k]]
    IN  SubSeq(ranked, 1, Min(n, m))

\* df_cor[df_cor.index == 'Amsterdam'].T: the target's correlation with
\* every column of the wide table, in column order.
TargetCorr(frame) == [i \in 1..Len(frame.columns) |-> Corr(frame, frame.columns[i], Target)]

\* top_cities, lines 50-55.
TopCities(frame) == NLargest(cities + 1, frame.columns, TargetCorr(frame))

\* top_cities[1:]
Rest(s) == IF s = <<>> THEN <<>> ELSE Tail(s)

\* Mutant: the selected columns are not shifted.
ShiftAssignNoLag(frame, preds) ==
    LET cols == IF Target \in Range(preds) THEN preds ELSE Append(preds, Target)
    IN  [ columns |-> cols,
          rows    |-> [i \in 1..Len(frame.rows) |->
                         [ date |-> frame.rows[i].date,
                           v    |-> [c \in Range(cols) |-> frame.rows[i].v[c]] ]] ]

\* ------------------------------------------------- Feature Builder (62-65)
\* df_city[preds].shift(1).assign(Amsterdam=df_city.Amsterdam): every
\* selected column moved one row down (NaN in the first row), then the
\* column Amsterdam set to the unlagged target: overwritten in place when
\* the selection already holds it, appended otherwise.
ShiftAssign(frame, preds) ==
    LET cols == IF Target \in Range(preds) THEN preds ELSE Append(preds, Target)
    IN  [ columns |-> cols,
          rows    |-> [i \in 1..Len(frame.rows) |->
                         [ date |-> frame.rows[i].date,
                           v    |-> [c \in Range(cols) |->
                                       IF c = Target THEN frame.rows[i].v[c]
                                       ELSE IF i = 1 THEN NaN
                                       ELSE frame.rows[i - 1].v[c]] ]] ]

RowComplete(row) == \A c \in DOMAIN row.v : row.v[c] # NaN

\* Mutant: only the first row is dropped, whatever is missing.
DropFirstRow(frame) ==
    [columns |-> frame.columns, rows |-> Rest(frame.rows)]

\* dropna(): the rows without a missing cell, in order.
DropNa(frame) ==
    [columns |-> frame.columns, rows |-> SelectSeq(frame.rows, RowComplete)]

FeatureTable(frame, tops) == DropNa(ShiftAssign(frame, Rest(tops)))

\* ---------------------------------------------------- Trend Tester (76-83)
\* OLS of the target on a constant and arange(n): the slope has the sign of
\* n*Sum(t*y) - Sum(t)*Sum(y); a missing target value makes the fit NaN.
\* The p-value test and the print are output only.
TrendSlope(frame) ==
    LET y == Column(frame, Target)
        n == Len(y)
    IN  IF \E i \in 1..n : y[i] = NaN
        THEN [nan |-> TRUE, slope |-> 0]
        ELSE [ nan   |-> FALSE,
               slope |-> n * SumSeq([i \in 1..n |-> (i - 1) * y[i]])
                         - SumSeq([i \in 1..n |-> i - 1]) * SumSeq(y) ]

\* ---------------------------------------------------------- Splitter (89)

\* Mutant: the test size is rounded down.
NTestFloor(n) == (TestSizeNum * n) \div TestSizeDen

\* n_test = ceil(test_size * n)
NTest(n) == (TestSizeNum * n + TestSizeDen - 1) \div TestSizeDen

\* n_train = n - n_test (train_size is None: the complement)
NTrain(n) == n - NTest(n)

\* train_test_split raises ValueError when the train set would be empty.
SplitOk(n) == n >= 1 /\ NTrain(n) >= 1

\* shuffle=False: train = the first n_train elements, test = the rest.
SplitTrain(s) == SubSeq(s, 1, NTrain(Len(s)))

\* Mutant: the test part starts one row late.
SplitTestLate(s) == SubSeq(s, NTrain(Len(s)) + 2, NTrain(Len(s)) + NTest(Len(s)))

SplitTest(s) == SubSeq(s, NTrain(Len(s)) + 1, NTrain(Len(s)) + NTest(Len(s)))

\* ------------------------------------------------ Forecaster (125-145)
\* Coefficients the opaque estimator may return: a constant, an AR(1)
\* weight and one weight on the exogenous regressors.
ParamSet ==
    { [c |-> 1, ar |-> 0, b |-> 0], [c |-> 0, ar |-> 1, b |-> 0], [c |-> 0, ar |-> 1, b |-> 1] }

NoParams == [c |-> 0, ar |-> 0, b |-> 0]

Unfit == [state |-> "Unfit", params |-> NoParams, endog |-> <<>>, exog |-> <<>>, resid |-> <<>>]

\* The target series of a frame, and per row the sum of its exogenous
\* columns (zero for the baseline model, which has none).
Endog(frame) == [i \in 1..Len(frame.rows) |-> frame.rows[i].v[Target]]

Exog(frame, preds) ==
    [i \in 1..Len(frame.rows) |-> SumSeq([j \in 1..Len(preds) |-> frame.rows[i].v[preds[j]]])]

NoExog(frame) == [i \in 1..Len(frame.rows) |-> 0]

\* One-step-ahead error at position t under coefficients th: the forecast
\* uses only the observation before t and the regressors at t.
OneStepError(th, y, x, t) ==
    y[t] - (th.c + th.ar * (IF t = 1 THEN 0 ELSE y[t - 1]) + th.b * x[t])

\* resid(): one error per observation of the model's history, in time order.
Residuals(th, y, x) == [t \in 1..Len(y) |-> OneStepError(th, y, x, t)]

\* auto_arima(y, exogenous=x): estimate on (y, x) alone.
FitModel(th, y, x) ==
    [state |-> "Fit", params |-> th, endog |-> y, exog |-> x, resid |-> Residuals(th, y, x)]

\* Mutant: the coefficients are re-estimated whatever maxiter is.
RefitAlways(m, maxiter, th) == th

\* The coefficients after update(..., maxiter): the warm start is kept when
\* no iteration is allowed, re-estimated (th) otherwise.
Refit(m, maxiter, th) == IF maxiter = 0 THEN m.params ELSE th

\* Mutant: the updated model keeps only the new observations.
UpdateModelNoHistory(m, y, x, maxiter, th) ==
    [state |-> "Fit", params |-> Refit(m, maxiter, th), endog |-> y, exog |-> x,
     resid |-> Residuals(Refit(m, maxiter, th), y, x)]

\* update(y, exogenous=x, maxiter): the new observations are appended to
\* the history and the residuals recomputed over the whole history.
UpdateModel(m, y, x, maxiter, th) ==
    LET th2 == Refit(m, maxiter, th)
        y2  == m.endog \o y
        x2  == m.exog \o x
    IN  [state |-> "Fit", params |-> th2, endog |-> y2, exog |-> x2,
         resid |-> Residuals(th2, y2, x2)]

\* -------------------------------------------------- Evaluator (132-134)

\* Mutant: the sign is kept.
NpAbsOff(x) == x

\* np.abs
NpAbs(x) == IF x < 0 THEN 0 - x ELSE x

\* np.mean(np.abs(test_resid)) as the exact ratio sum / n.
MeanAbs(r) == [sum |-> SumSeq([i \in 1..Len(r) |-> NpAbs(r[i])]), n |-> Len(r)]

\* Mutant: the baseline model is extended before it is fitted.
AfterSwapped(step) ==
    CASE step = "reshape"     -> "select"
      [] step = "select"      -> "features"
      [] step = "features"    -> "trend"
      [] step = "trend"       -> "split"
      [] step = "split"       -> "update"
      [] step = "update"      -> "fit"
      [] step = "fit"         -> "eval"
      [] step = "eval"        -> "fit_exog"
      [] step = "fit_exog"    -> "update_exog"
      [] step = "update_exog" -> "eval_exog"
      [] OTHER                -> "done"

\* ------------------------------------------------------------ the script
\* The statement groups of the script in the order it runs them.
After(step) ==
    CASE step = "reshape"     -> "select"
      [] step = "select"      -> "features"
      [] step = "features"    -> "trend"
      [] step = "trend"       -> "split"
      [] step = "split"       -> "fit"
      [] step = "fit"         -> "update"
      [] step = "update"      -> "eval"
      [] step = "eval"        -> "fit_exog"
      [] step = "fit_exog"    -> "update_exog"
      [] step = "update_exog" -> "eval_exog"
      [] OTHER                -> "done"

VARIABLES
    pc,          \* the next statement group of the script
    error,       \* the exception that ended the run ("" while none)
    df,          \* the panel returned by read_data
    df_city,     \* the wide table
    top_cities,  \* the ranked city names, the target expected first
    df_data,     \* the feature table
    results,     \* the trend fit
    train, test, \* the chronological split of df_data
    model,       \* the baseline forecaster
    model_exog,  \* the forecaster with exogenous regressors
    test_resid,  \* the residual slice last carved out
    mae,         \* the mean absolute errors printed so far
    log          \* the forecaster operations performed so far, in order

vars == << pc, error, df, df_city, top_cities, df_data, results, train, test,
           model, model_exog, test_resid, mae, log >>

Start(d) ==
    /\ pc = "reshape"
    /\ error = ""
    /\ df = d
    /\ df_city = EmptyFrame
    /\ top_cities = <<>>
    /\ df_data = EmptyFrame
    /\ results = [nan |-> TRUE, slope |-> 0]
    /\ train = EmptyFrame
    /\ test = EmptyFrame
    /\ model = Unfit
    /\ model_exog = Unfit
    /\ test_resid = <<>>
    /\ mae = <<>>
    /\ log = <<>>

Init == \E d \in SmallPanels : Start(d)

\* Lines 34-37: build the wide table, then look the target column up
\* (df_city.Amsterdam raises AttributeError when there is no such column).
Reshape ==
    /\ pc = "reshape"
    /\ df_city' = Unstack(df)
    /\ IF HasColumn(df_city', Target)
       THEN pc' = After("reshape") /\ error' = error
       ELSE pc' = "failed" /\ error' = "AttributeError"
    /\ UNCHANGED << df, top_cities, df_data, results, train, test, model,
                    model_exog, test_resid, mae, log >>

\* Lines 47-56: nlargest on the column 'Amsterdam' of the transposed
\* correlation row raises KeyError when the row selection is empty.
Select ==
    /\ pc = "select"
    /\ IF Target \in Range(df_city.columns)
       THEN top_cities' = TopCities(df_city) /\ pc' = After("select") /\ error' = error
       ELSE top_cities' = top_cities /\ pc' = "failed" /\ error' = "KeyError"
    /\ UNCHANGED << df, df_city, df_data, results, train, test, model,
                    model_exog, test_resid, mae, log >>

\* Lines 62-65.
Features ==
    /\ pc = "features"
    /\ df_data' = FeatureTable(df_city, top_cities)
    /\ pc' = After("features")
    /\ UNCHANGED << error, df, df_city, top_cities, results, train, test, model,
                    model_exog, test_resid, mae, log >>

\* Lines 76-83.
Trend ==
    /\ pc = "trend"
    /\ results' = TrendSlope(df_city)
    /\ pc' = After("trend")
    /\ UNCHANGED << error, df, df_city, top_cities, df_data, train, test, model,
                    model_exog, test_resid, mae, log >>

\* Line 89.
Split ==
    /\ pc = "split"
    /\ IF SplitOk(Len(df_data.rows))
       THEN /\ train' = [columns |-> df_data.columns, rows |-> SplitTrain(df_data.rows)]
            /\ test' = [columns |-> df_data.columns, rows |-> SplitTest(df_data.rows)]
            /\ pc' = After("split")
            /\ error' = error
       ELSE /\ UNCHANGED << train, test >>
            /\ pc' = "failed"
            /\ error' = "ValueError"
    /\ UNCHANGED << df, df_city, top_cities, df_data, results, model,
                    model_exog, test_resid, mae, log >>

\* Line 125: the baseline model is estimated on the training target.
Fit ==
    /\ pc = "fit"
    /\ \E th \in ParamSet : model' = FitModel(th, Endog(train), NoExog(train))
    /\ log' = Append(log, "fit")
    /\ pc' = After("fit")
    /\ UNCHANGED << error, df, df_city, top_cities, df_data, results, train, test,
                    model_exog, test_resid, mae >>

\* What update() does with model m and new observations (y, x): a model
\* that was never fitted is refused (check_is_fitted); an empty batch is
\* either refused by input validation or appended as nothing, which of the
\* two depends on the library build; anything else is appended.
UpdateOutcomes(m, y) ==
    IF m.state # "Fit" THEN {"NotFittedError"}
    ELSE IF Len(y) = 0 THEN {"ValueError", ""}
    ELSE {""}

\* Line 131: model.update(test.Amsterdam, maxiter=0).
Update ==
    /\ pc = "update"
    /\ \E out \in UpdateOutcomes(model, Endog(test)), th \in ParamSet :
         IF out = ""
         THEN /\ model' = UpdateModel(model, Endog(test), NoExog(test), MaxIter, th)
              /\ pc' = After("update")
              /\ error' = error
         ELSE /\ model' = model
              /\ pc' = "failed"
              /\ error' = out
    /\ log' = Append(log, "update")
    /\ UNCHANGED << df, df_city, top_cities, df_data, results, train, test,
                    model_exog, test_resid, mae >>

\* Lines 132-134: the split is applied again, to the residual sequence, and
\* the mean absolute value of its test part is printed.
Eval ==
    /\ pc = "eval"
    /\ IF SplitOk(Len(model.resid))
       THEN /\ test_resid' = SplitTest(model.resid)
            /\ mae' = Append(mae, MeanAbs(test_resid'))
            /\ pc' = After("eval")
            /\ error' = error
       ELSE /\ UNCHANGED << test_resid, mae >>
            /\ pc' = "failed"
            /\ error' = "ValueError"
    /\ log' = Append(log, "mae")
    /\ UNCHANGED << df, df_city, top_cities, df_data, results, train, test,
                    model, model_exog >>

\* Lines 138-139: the same estimation with train[top_cities[1:]] as
\* exogenous regressors.
FitExog ==
    /\ pc = "fit_exog"
    /\ \E th \in ParamSet :
         model_exog' = FitModel(th, Endog(train), Exog(train, Rest(top_cities)))
    /\ log' = Append(log, "fit_exog")
    /\ pc' = After("fit_exog")
    /\ UNCHANGED << error, df, df_city, top_cities, df_data, results, train, test,
                    model, test_resid, mae >>

\* Line 145: model_exog.update(test.Amsterdam, exogenous=..., maxiter=0).
UpdateExog ==
    /\ pc = "update_exog"
    /\ \E out \in UpdateOutcomes(model_exog, Endog(test)), th \in ParamSet :
         IF out = ""
         THEN /\ model_exog' = UpdateModel(model_exog, Endog(test),
                                           Exog(test, Rest(top_cities)), MaxIter, th)
              /\ pc' = After("update_exog")
              /\ error' = error
         ELSE /\ model_exog' = model_exog
              /\ pc' = "failed"
              /\ error' = out
    /\ log' = Append(log, "update_exog")
    /\ UNCHANGED << df, df_city, top_cities, df_data, results, train, test,
                    model, test_resid, mae >>

\* Lines 146-148.
EvalExog ==
    /\ pc = "eval_exog"
    /\ IF SplitOk(Len(model_exog.resid))
       THEN /\ test_resid' = SplitTest(model_exog.resid)
            /\ mae' = Append(mae, MeanAbs(test_resid'))
            /\ pc' = After("eval_exog")
            /\ error' = error
       ELSE /\ UNCHANGED << test_resid, mae >>
            /\ pc' = "failed"
            /\ error' = "ValueError"
    /\ log' = Append(log, "mae_exog")
    /\ UNCHANGED << df, df_city, top_cities, df_data, results, train, test,
                    model, model_exog >>

Next ==
    \/ Reshape
    \/ Select
    \/ Features
    \/ Trend
    \/ Split
    \/ Fit
    \/ Update
    \/ Eval
    \/ FitExog
    \/ UpdateExog
    \/ EvalExog

\* The script, run once on any enumerated panel.
Spec == Init /\ [][Next]_vars

\* The script run on the end-to-end scenario's panels.
InitScenario == \E d \in ScenarioPanels : Start(d)

SpecScenario == InitScenario /\ [][Next]_vars

\* The extension taken on its own: a model fitted on the first k rows of a
\* feature table is handed the remaining rows, which may be none.
ExtendPanels ==
    { Panel(n, Range(Cities), shape, {}) :
        n \in 2..MaxRows, shape \in [Range(Cities) -> ShapeNames] }

\* The feature tables of those panels, built as the script builds them.
ExtendInputs ==
    { LET w    == Unstack(d)
          tops == TopCities(w)
      IN  [d |-> d, w |-> w, tops |-> tops, data |-> FeatureTable(w, tops),
           trend |-> TrendSlope(w)] :
        d \in ExtendPanels }

InitExtend ==
    \E inp \in ExtendInputs, th \in ParamSet :
      \E k \in 1..Len(inp.data.rows) :
        /\ pc = "update"
        /\ error = ""
        /\ df = inp.d
        /\ df_city = inp.w
        /\ top_cities = inp.tops
        /\ df_data = inp.data
        /\ results = inp.trend
        /\ train = [columns |-> inp.data.columns, rows |-> SubSeq(inp.data.rows, 1, k)]
        /\ test = [columns |-> inp.data.columns,
                   rows |-> SubSeq(inp.data.rows, k + 1, Len(inp.data.rows))]
        /\ model = FitModel(th, Endog(train), NoExog(train))
        /\ model_exog = Unfit
        /\ test_resid = <<>>
        /\ mae = <<>>
        /\ log = <<"fit">>

NextExtend ==
    \/ Update
    \/ Eval
    \/ FitExog
    \/ UpdateExog
    \/ EvalExog

SpecExtend == InitExtend /\ [][NextExtend]_vars

\* ================================================================ claims
\* Where the run stands.
Steps ==
    << "reshape", "select", "features", "trend", "split", "fit", "update", "eval",
       "fit_exog", "update_exog", "eval_exog", "done" >>

StepNo(step) == CHOOSE k \in 1..Len(Steps) : Steps[k] = step

\* The statement group `step` has completed in this run.
Passed(step) == pc # "failed" /\ StepNo(pc) > StepNo(step)

Selected == top_cities # <<>>

Built == df_data.columns # <<>>

Splitted == train.columns # <<>>

Distinct(s) == \A i, j \in 1..Len(s) : i # j => s[i] # s[j]

\* The position in the wide table of the row with date d.
RowAt(frame, d) == CHOOSE i \in 1..Len(frame.rows) : frame.rows[i].date = d

\* The columns of the feature table that hold lagged values.
Lagged == Range(df_data.columns) \ {Target}

NoCellMissing(frame) == \A i \in 1..Len(frame.rows) : RowComplete(frame.rows[i])

\* ------------------------------------------------------------------- C1
\* C1 (as claimed): whenever the wide table holds the target and at least
\* K other cities, the selection top_cities[1:] consists of exactly K
\* distinct columns of the wide table, none of them the target - also when
\* a city ties with the target at correlation 1.
C1_SelectionExcludesTarget ==
    (Selected /\ Len(df_city.columns) >= cities + 1 /\ ~ Corr(df_city, Target, Target).nan) =>
        /\ Len(Rest(top_cities)) = cities
        /\ Distinct(Rest(top_cities))
        /\ Target \notin Range(Rest(top_cities))
        /\ Range(Rest(top_cities)) \subseteq Range(df_city.columns)

\* ------------------------------------------------------------------- C2
\* C2 (as claimed): with at least one lagged predictor column, the feature
\* table has exactly N-1 rows, namely every row of the N-row wide table
\* but the first, in order, and no missing cell.
C2_DropsExactlyFirstRow ==
    (Built /\ Lagged # {}) =>
        /\ Len(df_data.rows) = Len(df_city.rows) - 1
        /\ \A i \in 1..Len(df_data.rows) : df_data.rows[i].date = df_city.rows[i + 1].date
        /\ NoCellMissing(df_data)

\* A wide-table row survives dropna exactly when its target value is
\* present and every lagged column has a present value in the row before.
Survives(i) ==
    /\ df_city.rows[i].v[Target] # NaN
    /\ \A c \in Lagged : i > 1 /\ df_city.rows[i - 1].v[c] # NaN

SurvivingDates ==
    LET keep == SelectSeq([i \in 1..Len(df_city.rows) |-> i], Survives)
    IN  [k \in 1..Len(keep) |-> df_city.rows[keep[k]].date]

\* C2 (amended): the feature table has no missing cell and consists, in
\* the original order, of exactly the wide-table rows whose target value
\* and whose lagged predictors' previous-row values are all present; the
\* first row is dropped whenever there is a lagged column, and exactly the
\* first row (N-1 rows left) when moreover the wide table's selected
\* columns have no missing cell.
C2_DropsRowsLackingValues ==
    Built =>
        /\ NoCellMissing(df_data)
        /\ [k \in 1..Len(df_data.rows) |-> df_data.rows[k].date] = SurvivingDates
        /\ (Lagged # {} /\ df_city.rows # <<>>) =>
              \A k \in 1..Len(df_data.rows) : df_data.rows[k].date # df_city.rows[1].date
        /\ (Lagged # {} /\ \A i \in 1..Len(df_city.rows) :
                              \A c \in Range(df_data.columns) : df_city.rows[i].v[c] # NaN) =>
              /\ Len(df_data.rows) = Len(df_city.rows) - 1
              /\ \A k \in 1..Len(df_data.rows) : df_data.rows[k].date = df_city.rows[k + 1].date

\* A wide table with a missing cell has lost more than its first row.
C2_Witness ==
    /\ Built
    /\ Lagged # {}
    /\ Len(df_data.rows) >= 2
    /\ Len(df_data.rows) < Len(df_city.rows) - 1

\* ------------------------------------------------------------------- C3
\* C3 (as claimed): in every row of the feature table every predictor
\* equals the TARGET column's value in the preceding wide-table row, and
\* the target column holds the row's own unlagged value.
C3_PredictorIsLaggedTarget ==
    Built =>
        \A k \in 1..Len(df_data.rows) :
            LET i == RowAt(df_city, df_data.rows[k].date)
            IN  /\ i > 1 \/ Lagged = {}
                /\ df_data.rows[k].v[Target] = df_city.rows[i].v[Target]
                /\ \A c \in Lagged : i > 1 /\ df_data.rows[k].v[c] = df_city.rows[i - 1].v[Target]

\* C3 (amended): in every row of the feature table every predictor equals
\* that predictor city's OWN value in the preceding wide-table row, and the
\* target column holds the row's own unlagged value.
C3_PredictorIsOwnLag ==
    Built =>
        \A k \in 1..Len(df_data.rows) :
            LET i == RowAt(df_city, df_data.rows[k].date)
            IN  /\ i > 1 \/ Lagged = {}
                /\ df_data.rows[k].v[Target] = df_city.rows[i].v[Target]
                /\ \A c \in Lagged : i > 1 /\ df_data.rows[k].v[c] = df_city.rows[i - 1].v[c]

\* A feature row whose predictor differs from the target's previous value.
C3_Witness ==
    /\ Built
    /\ \E k \in 1..Len(df_data.rows) : \E c \in Lagged :
         LET i == RowAt(df_city, df_data.rows[k].date)
         IN  /\ i > 1
             /\ df_data.rows[k].v[c] = df_city.rows[i - 1].v[c]
             /\ df_data.rows[k].v[c] # df_city.rows[i - 1].v[Target]

\* ------------------------------------------------------------------- C4
\* C4: whenever the splitter returns, train followed by test is the feature
\* table's row sequence itself (train a prefix, test the remaining suffix,
\* nothing lost, repeated or reordered), and the boundary is the one the
\* row count alone fixes: the test part is the least whole number of rows
\* that is at least test_size of the total, and the train part is not
\* empty; the second call of the script, on a sequence of the same length,
\* cuts at the same boundary.
C4_SplitIsPrefixSuffix ==
    Splitted =>
        LET n == Len(df_data.rows)
            k == Len(train.rows)
        IN  /\ train.rows \o test.rows = df_data.rows
            /\ train.rows = SubSeq(df_data.rows, 1, k)
            /\ test.rows = SubSeq(df_data.rows, k + 1, n)
            /\ k >= 1
            /\ TestSizeDen * Len(test.rows) >= TestSizeNum * n
            /\ TestSizeDen * (Len(test.rows) - 1) < TestSizeNum * n
            /\ train.columns = df_data.columns /\ test.columns = df_data.columns
            /\ Passed("eval") => Len(test_resid) = Len(test.rows)

\* A split with several rows on each side.
C4_Witness ==
    /\ Splitted
    /\ Len(train.rows) >= 4
    /\ Len(test.rows) >= 2

\* ------------------------------------------------------------------- C5
\* C5: in the end-to-end scenario a 1000-row wide table gives a 999-row
\* feature table, and the split of those rows with test_size 0.2 gives 799
\* training rows and 200 test rows.
C5_ScenarioRowCounts ==
    /\ Passed("reshape") => Len(df_city.rows) = 1000
    /\ Passed("features") => Len(df_data.rows) = 999
    /\ Passed("split") => (Len(train.rows) = 799 /\ Len(test.rows) = 200)

C5_Witness ==
    /\ pc = "done"
    /\ Len(df_city.rows) = 1000
    /\ Len(df_data.rows) = 999
    /\ Len(train.rows) = 799
    /\ Len(test.rows) = 200

\* ------------------------------------------------------------------- C6
\* The one-step error of test row i under coefficients th, read off the
\* feature table: xs gives each row's regressor total.
TestRowError(th, xs, i) ==
    LET prev == IF i = 1 THEN train.rows[Len(train.rows)].v[Target]
                ELSE test.rows[i - 1].v[Target]
    IN  test.rows[i].v[Target] - (th.c + th.ar * prev + th.b * xs[i])

SliceIsTestResiduals(m, xs, printed) ==
    /\ Len(test_resid) = Len(test.rows)
    /\ \A i \in 1..Len(test.rows) : test_resid[i] = TestRowError(m.params, xs, i)
    /\ printed.n = Len(test.rows)
    /\ printed.sum = SumSeq([i \in 1..Len(test.rows) |->
                               IF TestRowError(m.params, xs, i) < 0
                               THEN 0 - TestRowError(m.params, xs, i)
                               ELSE TestRowError(m.params, xs, i)])

\* C6: for the baseline and for the exogenous model, the slice carved out
\* of the residual sequence by the second split has as many elements as
\* the test segment and holds the residuals of the test rows, position for
\* position; the MAE is taken over exactly those values.
C6_ResidualSliceIsTestPeriod ==
    /\ (Passed("eval") /\ ~ Passed("eval_exog")) =>
          SliceIsTestResiduals(model, NoExog(test), mae[1])
    /\ Passed("eval_exog") =>
          SliceIsTestResiduals(model_exog, Exog(test, Rest(top_cities)), mae[2])

C6_Witness ==
    /\ pc = "done"
    /\ Len(test.rows) >= 2
    /\ Len(train.rows) >= 4
    /\ model_exog.params.b # 0
    /\ \E i \in 1..Len(test_resid) : test_resid[i] # 0

\* ------------------------------------------------------------------- C7
Extended(m, m2, M) ==
    /\ m2.params = m.params
    /\ Len(m2.resid) = Len(m.resid) + M
    /\ \A t \in 1..Len(m.resid) : m2.resid[t] = m.resid[t]

C8_MaeNonNegative ==
    /\ \A k \in 1..Len(mae) : mae[k].n > 0 /\ mae[k].sum >= 0
    /\ mae # <<>> =>
          (mae[Len(mae)].sum = 0 => \A i \in 1..Len(test_resid) : test_resid[i] = 0)

\* A printed MAE over residuals of both signs.
C8_Witness ==
    /\ mae # <<>>
    /\ \E i, j \in 1..Len(test_resid) : test_resid[i] > 0 /\ test_resid[j] < 0
    /\ SumSeq(test_resid) = 0
    /\ mae[Len(mae)].sum > 0

\* ------------------------------------------------------------------- C9
TargetAbsent == Target \notin PanelCities(df)

\* C9: when the panel has no target city the run ends at the column lookup
\* with a lookup error: no city list, no fitted model, no MAE, and the
\* failed run takes no further step.
C9_MissingTargetFailsFast ==
    TargetAbsent =>
        /\ pc \in {"reshape", "failed"}
        /\ pc = "failed" => (error = "AttributeError" /\ ~ ENABLED Next)
        /\ top_cities = <<>>
        /\ df_data = EmptyFrame
        /\ model = Unfit /\ model_exog = Unfit
        /\ mae = <<>> /\ log = <<>>

C9_Witness ==
    /\ TargetAbsent
    /\ pc = "failed"
    /\ error = "AttributeError"
    /\ Len(df_city.rows) >= 2

\* ------------------------------------------------------------------ C10
Lifecycle == << "fit", "update", "mae", "fit_exog", "update_exog", "mae_exog" >>

\* C10: the forecaster operations of a run are an initial part of
\* fit, update, MAE, fit (exogenous), update (exogenous), MAE (exogenous),
\* each at most once and all of them in a finished run; a model is Fit
\* exactly from its fit on, its history is the training target after the
\* fit and the training target followed by the test target after the
\* extension, and an MAE is printed only after the extension.
C10_Lifecycle ==
    LET n == Len(log)
    IN  /\ n <= Len(Lifecycle) /\ log = SubSeq(Lifecycle, 1, n)
        /\ pc = "done" => n = Len(Lifecycle)
        /\ (model.state = "Fit") <=> (n >= 1)
        /\ (model_exog.state = "Fit") <=> (n >= 4)
        /\ n = 1 => model.endog = Endog(train)
        /\ n >= 2 => model.endog = Endog(train) \o Endog(test)
        /\ n = 4 => model_exog.endog = Endog(train)
        /\ n >= 5 => model_exog.endog = Endog(train) \o Endog(test)
        /\ Len(mae) = (IF n >= 3 THEN 1 ELSE 0) + (IF n >= 6 THEN 1 ELSE 0)
        /\ n >= 1 => Splitted

C10_Witness ==
    /\ pc = "done"
    /\ log = Lifecycle
    /\ Len(mae) = 2
    /\ Len(model.resid) = Len(df_data.rows)
    /\ Len(model_exog.resid) = Len(df_data.rows)

====
